---------------------------- MODULE Spec2Model ----------------------------
(***************************************************************************)
(* A model of WeatherForecastBot: the weather analyzer                     *)
(* (src/weather_analyzer.py), the JSON data manager                        *)
(* (src/data_manager.py), the notifier (src/notifier.py) and the bot's     *)
(* run() with its forecast retrieval (src/main.py).                        *)
(*                                                                         *)
(* Units.  Temperatures are integers counting tenths of a degree Celsius   *)
(* (20.5 C is 205); humidity and precipitation probability are integer     *)
(* percents.  A Python dict is a function whose DOMAIN is the set of keys  *)
(* present.  A call that returns v is Ok(v); a call that raises is         *)
(* Raise(kind).  Text is modelled by its structure: the label chosen, the  *)
(* numbers embedded in it as they are formatted, the order of its parts.   *)
(* Chinese labels of the source are written in English in the model.       *)
(***************************************************************************)
EXTENDS Integers, Sequences, FiniteSets, TLC

VARIABLES
    tomorrow,     \* the forecast dict handed to the analyzer
    historical,   \* the history: a sequence of dicts, most recent first
    config,       \* WeatherAnalyzer.analysis_config
    call,         \* the name of the last operation that ran
    ret,          \* what that operation returned (Ok) or raised (Raise)
    analysis,     \* the result of the last analyze_weather_trend
    composed,     \* suggestion sets _generate_suggestions gave for analysis
    rendered,     \* report texts format_report gave for analysis
    now,          \* the wall clock, in seconds (datetime.now())
    records,      \* weather_data.json: the stored "records" list
    today,        \* the calendar day of datetime.now(), as a day number
    days,         \* the argument of the last get_historical_data
    saves,        \* how many save_weather_data calls have been made
    pc,           \* where the bot is in run() / get_weather_forecast()
    settings,     \* config['settings']
    run_record,   \* run_record.json: last_run_date as a day number, or NoDate
    retry_times,  \* the argument of get_weather_forecast
    attempt,      \* the loop variable of get_weather_forecast
    sleeps,       \* how many times this get_weather_forecast has slept
    responses,    \* what the requests of this get_weather_forecast got
    steps,        \* what this run() has done so far
    before,       \* the two files as they were when this run() started
    delivered,    \* per day, how many weather reports were delivered
    runs          \* how many run() / get_weather_forecast() calls were made

botVars == <<pc, settings, run_record, retry_times, attempt, sleeps,
            responses, steps, before, delivered, runs>>

vars == <<tomorrow, historical, config, call, ret, analysis, composed,
          rendered, now, records, today, days, saves, botVars>>

analyzerVars == <<tomorrow, historical, config, analysis, composed,
                  rendered, now>>

dataVars == <<records, today, days, saves>>

-----------------------------------------------------------------------------
(* Bounds of the model *)

\* the longest history drawn
MaxHist == 3

\* the last half second of the wall clock
MaxNow == 2

\* the last calendar day reached
MaxDay == 2

\* the most save_weather_data calls in one behaviour
MaxSaves == 3

\* the most run() calls, or get_weather_forecast calls made on their own,
\* in one behaviour
MaxRuns == 3

\* the largest retry_times given to get_weather_forecast
MaxRetries == 3

-----------------------------------------------------------------------------
(* Python values *)

EmptyDict == [k \in {} |-> 0]

Has(d, k) == k \in DOMAIN d

\* dict.get(k, default)
Get(d, k, default) == IF k \in DOMAIN d THEN d[k] ELSE default

Ok(v) == [ok |-> TRUE, val |-> v]

Raise(kind) == [ok |-> FALSE, err |-> kind]

NoResult == Raise("none")

Abs(x) == IF x < 0 THEN -x ELSE x

RECURSIVE Sum(_)
Sum(s) == IF s = <<>> THEN 0 ELSE Head(s) + Sum(Tail(s))

RECURSIVE SumSq(_)
SumSq(s) == IF s = <<>> THEN 0 ELSE Head(s) * Head(s) + SumSq(Tail(s))

\* [h[k] for h in hs if k in h]
RECURSIVE Pluck(_, _)
Pluck(hs, k) ==
    IF hs = <<>> THEN <<>>
    ELSE IF Has(Head(hs), k) THEN <<Head(hs)[k]>> \o Pluck(Tail(hs), k)
         ELSE Pluck(Tail(hs), k)

\* n / d (d > 0) rounded to the nearest integer, a tie going to the even
\* one: what round(x, 1) does to a value counted in tenths and what the
\* format :.0f does to a value counted in units.
RoundDiv(n, d) ==
    LET q == n \div d
        r == n % d
    IN  IF 2 * r < d THEN q
        ELSE IF 2 * r > d THEN q + 1
        ELSE IF q % 2 = 0 THEN q ELSE q + 1

\* the format {x:.0f} of a temperature: whole degrees
Fmt0f(x) == RoundDiv(x, 10)

\* round(sqrt(q / d), 1) for q, d counted so that the root is in tenths
RoundSqrt(q, d, limit) ==
    CHOOSE k \in 0..limit :
        /\ (k = 0 \/ (2 * k - 1) * (2 * k - 1) * d <= 4 * q)
        /\ 4 * q < (2 * k + 1) * (2 * k + 1) * d


RECURSIVE SeqMax(_)
SeqMax(s) ==
    IF Len(s) = 1 THEN Head(s)
    ELSE LET m == SeqMax(Tail(s)) IN IF Head(s) > m THEN Head(s) ELSE m

RECURSIVE SeqMin(_)
SeqMin(s) ==
    IF Len(s) = 1 THEN Head(s)
    ELSE LET m == SeqMin(Tail(s)) IN IF Head(s) < m THEN Head(s) ELSE m

\* '雨' in weather, '雪' in weather: the descriptions that hold the word
RainWords == {"light_rain", "heavy_rain", "sleet"}

SnowWords == {"snow", "sleet"}

\* strftime('%Y-%m-%d') of day number n, as <<year, month, day>>: day 0 is
\* 2025-12-30, so the days drawn cross a month and a year.
DateStr(n) == IF n <= 1 THEN <<2025, 12, 30 + n>> ELSE <<2026, 1, n - 1>>

\* a < b on 'YYYY-MM-DD' strings: the first differing field decides
StrLess(a, b) ==
    \/ a[1] < b[1]
    \/ a[1] = b[1] /\ a[2] < b[2]
    \/ a[1] = b[1] /\ a[2] = b[2] /\ a[3] < b[3]

-----------------------------------------------------------------------------
(* WeatherAnalyzer *)

\* statistics.mean raises StatisticsError on an empty list; the means are
\* kept as the exact fractions Sum / Len and every comparison is made on
\* the unrounded value, cross-multiplied.
_analyze_temperature_trend(t, hs, cfg) ==
    LET hist_max_temps == Pluck(hs, "temp_max")
        hist_min_temps == Pluck(hs, "temp_min")
        n == Len(hist_max_temps)
        m == Len(hist_min_temps)
        smax == Sum(hist_max_temps)
        smin == Sum(hist_min_temps)
        \* max_temp_change = max_num / n, min_temp_change = min_num / m
        max_num == n * t["temp_max"] - smax
        min_num == m * t["temp_min"] - smin
        \* variance of hist_max_temps = q / d
        q == n * SumSq(hist_max_temps) - smax * smax
        d == n * (n - 1)
        temp_std == IF n > 1
                    THEN RoundSqrt(q, d, SeqMax(hist_max_temps)
                                         - SeqMin(hist_max_temps) + 1)
                    ELSE 0
        high == n > 1 /\ q > 50 * 50 * d
        trend ==
            IF Abs(max_num) > Get(cfg, "temp_change_threshold", 30) * n
            THEN (IF max_num > 0 THEN "significant_rise"
                                 ELSE "significant_fall")
            ELSE IF Abs(max_num) > 15 * n
            THEN (IF max_num > 0 THEN "slight_rise" ELSE "slight_fall")
            ELSE "stable"
    IN  IF hist_max_temps = <<>> THEN Ok(EmptyDict)
        ELSE IF hist_min_temps = <<>> THEN Raise("StatisticsError")
        ELSE Ok([trend |-> trend,
                 max_temp_change |-> RoundDiv(max_num, n),
                 min_temp_change |-> RoundDiv(min_num, m),
                 avg_max_temp |-> RoundDiv(smax, n),
                 avg_min_temp |-> RoundDiv(smin, m),
                 tomorrow_diff |-> t["temp_max"] - t["temp_min"],
                 avg_hist_diff |-> RoundDiv(smax * m - smin * n, n * m),
                 volatility |-> IF high THEN "high" ELSE "normal",
                 temp_std |-> temp_std])

RECURSIVE RainyDays(_)
RainyDays(hs) ==
    IF hs = <<>> THEN 0
    ELSE (IF \/ Get(Head(hs), "weather", "") \in RainWords
             \/ Get(Head(hs), "precipitation_probability", 0) > 50
          THEN 1 ELSE 0) + RainyDays(Tail(hs))

_analyze_precipitation(t, hs) ==
    LET rain_prob == Get(t, "precipitation_probability", 0)
    IN  Ok([probability |-> rain_prob,
            trend |-> IF rain_prob > 70 THEN "high_probability_rain"
                      ELSE IF rain_prob > 40 THEN "possible_rain"
                      ELSE "low_rain",
            recent_rainy_days |-> RainyDays(hs),
            weather_desc |-> Get(t, "weather", "unknown")])

\* lines 118-121; (humidity - 50) * 0.1 degrees is humidity - 50 tenths
ApparentTemp(temp_max, humidity) ==
    IF temp_max > 250 THEN temp_max + (humidity - 50) ELSE temp_max

\* a mutant of ComfortLevel: the upper bound of the outer band exclusive
ComfortLevelExclusive(apparent_temp) ==
    IF 180 <= apparent_temp /\ apparent_temp <= 260 THEN "comfortable"
    ELSE IF \/ (150 <= apparent_temp /\ apparent_temp < 180)
            \/ (260 < apparent_temp /\ apparent_temp < 300)
    THEN "fairly_comfortable"
    ELSE IF apparent_temp < 150 THEN "cold"
    ELSE "hot"

\* lines 124-131
ComfortLevel(apparent_temp) ==
    IF 180 <= apparent_temp /\ apparent_temp <= 260 THEN "comfortable"
    ELSE IF \/ (150 <= apparent_temp /\ apparent_temp < 180)
            \/ (260 < apparent_temp /\ apparent_temp <= 300)
    THEN "fairly_comfortable"
    ELSE IF apparent_temp < 150 THEN "cold"
    ELSE "hot"

\* apparent_temp is a whole number of tenths, which round(x, 1) keeps
_analyze_comfort(t, hs) ==
    LET humidity == Get(t, "humidity", 50)
        apparent_temp == ApparentTemp(t["temp_max"], humidity)
    IN  Ok([apparent_temp |-> apparent_temp,
            comfort_level |-> ComfortLevel(apparent_temp),
            humidity |-> humidity,
            temp_diff |-> t["temp_max"] - t["temp_min"]])

\* A warning is its kind and the numbers its text embeds.

\* a mutant of HeatWarning: > for >=
HeatWarningStrict(t, cfg) ==
    IF t["temp_max"] > Get(cfg, "hot_warning_temp", 350)
    THEN <<[kind |-> "heat", value |-> t["temp_max"]]>>
    ELSE <<>>

HeatWarning(t, cfg) ==
    IF t["temp_max"] >= Get(cfg, "hot_warning_temp", 350)
    THEN <<[kind |-> "heat", value |-> t["temp_max"]]>>
    ELSE <<>>

ColdWarning(t, cfg) ==
    IF t["temp_min"] <= Get(cfg, "cold_warning_temp", 50)
    THEN <<[kind |-> "cold", value |-> t["temp_min"]]>>
    ELSE <<>>

RangeWarning(t, cfg) ==
    LET temp_diff == t["temp_max"] - t["temp_min"]
    IN  IF temp_diff > Get(cfg, "temp_diff_threshold", 100)
        THEN <<[kind |-> "diurnal_range", value |-> temp_diff]>>
        ELSE <<>>

RainWarning(t) ==
    IF Get(t, "precipitation_probability", 0) > 70
    THEN <<[kind |-> "rain", value |-> t["precipitation_probability"]]>>
    ELSE <<>>

\* last_day is historical[0]; without a temp_max it counts as no change
AbruptChangeWarning(t, hs) ==
    IF hs = <<>> THEN <<>>
    ELSE LET last_day == hs[1]
             temp_change == t["temp_max"]
                            - Get(last_day, "temp_max", t["temp_max"])
         IN  IF Abs(temp_change) > 80
             THEN <<[kind |-> "abrupt_change",
                     direction |-> IF temp_change > 0 THEN "up" ELSE "down",
                     value |-> Abs(temp_change)]>>
             ELSE <<>>

_check_warnings(t, hs, cfg) ==
    Ok(HeatWarning(t, cfg) \o ColdWarning(t, cfg) \o RangeWarning(t, cfg)
       \o RainWarning(t) \o AbruptChangeWarning(t, hs))

\* the wardrobe band of temp_min, coldest (1) to lightest (8)
MorningClothing(temp_min) ==
    IF temp_min < -50 THEN 1
    ELSE IF temp_min < 0 THEN 2
    ELSE IF temp_min < 50 THEN 3
    ELSE IF temp_min < 100 THEN 4
    ELSE IF temp_min < 150 THEN 5
    ELSE IF temp_min < 200 THEN 6
    ELSE IF temp_min < 250 THEN 7
    ELSE 8

\* Line 231 formats temp_max with the format spec ". 0f", which Python
\* rejects ("Format specifier missing precision"): that branch raises
\* ValueError.  Lines 233 to 246 format with ".0f".
_get_clothing_suggestion(temp_max, temp_min, apparent_temp) ==
    LET temp_diff == temp_max - temp_min
        morning_clothing == MorningClothing(temp_min)
    IN  IF temp_diff >= 120
        THEN IF temp_max >= 200 THEN Raise("ValueError")
             ELSE Ok([shape |-> "onion_layering",
                      morning |-> morning_clothing,
                      midday_tip |-> IF temp_max >= 150 THEN "take_off_coat"
                                     ELSE "reduce_a_little",
                      midday |-> Fmt0f(temp_max),
                      diff |-> Fmt0f(temp_diff)])
        ELSE IF temp_diff >= 80
        THEN Ok([shape |-> "reduce_layers",
                 morning |-> morning_clothing,
                 midday_tip |-> IF temp_max >= 200 THEN "warm_less_coat"
                                ELSE "reduce_a_little",
                 midday |-> Fmt0f(temp_max),
                 diff |-> Fmt0f(temp_diff)])
        ELSE Ok([shape |-> "morning_only", morning |-> morning_clothing])

_get_activity_suggestion(weather, comfort, rain_prob) ==
    IF rain_prob > 70 THEN "indoor_only"
    ELSE IF weather \in RainWords \/ weather \in SnowWords
    THEN "indoor_preferred"
    ELSE IF comfort = "comfortable" THEN "outdoor_encouraged"
    ELSE IF comfort = "fairly_comfortable" THEN "moderate_outdoor"
    ELSE IF comfort = "hot" THEN "outdoor_early_or_late"
    ELSE IF comfort = "cold" THEN "outdoor_keep_warm"
    ELSE "generic_moderate_outdoor"

_get_health_suggestion(trend, temp_max, temp_min) ==
    LET suggestions ==
            (IF trend \in {"significant_fall", "slight_fall"}
             THEN <<"prevent_cold">>
             ELSE IF trend \in {"significant_rise", "slight_rise"}
             THEN <<"hydrate">> ELSE <<>>)
            \o (IF temp_max - temp_min > 120 THEN <<"cardiovascular">>
                ELSE <<>>)
            \o (IF temp_min < 100 THEN <<"warm_morning_exercise">>
                ELSE <<>>)
            \o (IF temp_max > 300 THEN <<"avoid_sun">> ELSE <<>>)
    IN  IF suggestions # <<>> THEN suggestions ELSE <<"mild_weather">>

_generate_suggestions(a) ==
    LET t == a["tomorrow"]
        temp_trend == Get(a, "temperature_trend", EmptyDict)
        comfort == Get(a, "comfort_analysis", EmptyDict)
        clothing == _get_clothing_suggestion(
                        t["temp_max"], t["temp_min"],
                        Get(comfort, "apparent_temp", t["temp_max"]))
    IN  IF ~clothing.ok THEN clothing
        ELSE Ok([clothing |-> clothing.val,
                 activity |-> _get_activity_suggestion(
                                  Get(t, "weather", ""),
                                  Get(comfort, "comfort_level", ""),
                                  Get(t, "precipitation_probability", 0)),
                 health |-> _get_health_suggestion(
                                Get(temp_trend, "trend", ""),
                                t["temp_max"], t["temp_min"])])

_generate_simple_report(t) ==
    LET clothing == _get_clothing_suggestion(
                        t["temp_max"], t["temp_min"], t["temp_max"])
    IN  IF ~clothing.ok THEN clothing
        ELSE Ok([tomorrow |-> t,
                 temperature_trend |-> [trend |-> "no_history"],
                 suggestions |-> [clothing |-> clothing.val,
                                  activity |-> "no_suggestion",
                                  health |-> <<"watch_the_weather">>],
                 weather_warnings |-> <<>>])

\* the sub-analyses run in the order of the dict literal; the first that
\* raises ends the call
analyze_weather_trend(t, hs, cfg) ==
    IF hs = <<>> THEN _generate_simple_report(t)
    ELSE
    LET temperature_trend == _analyze_temperature_trend(t, hs, cfg)
        precipitation_trend == _analyze_precipitation(t, hs)
        comfort_analysis == _analyze_comfort(t, hs)
        weather_warnings == _check_warnings(t, hs, cfg)
        a == [tomorrow |-> t,
              temperature_trend |-> temperature_trend.val,
              precipitation_trend |-> precipitation_trend.val,
              comfort_analysis |-> comfort_analysis.val,
              weather_warnings |-> weather_warnings.val,
              suggestions |-> EmptyDict]
        suggestions == _generate_suggestions(a)
    IN  IF ~temperature_trend.ok THEN temperature_trend
        ELSE IF ~suggestions.ok THEN suggestions
        ELSE Ok([a EXCEPT !["suggestions"] = suggestions.val])

\* a value the template prints with a '-' default: <<v>>, or <<>> for '-'
Shown(d, k) == IF Has(d, k) THEN <<d[k]>> ELSE <<>>

\* The report is the sequence of its sections, each with the values its
\* text embeds.  The footer prints datetime.now() to the second: the clock
\* counts half seconds and strftime drops the half.
format_report(a, clock) ==
    LET t == a["tomorrow"]
        temp_trend == Get(a, "temperature_trend", EmptyDict)
        precip == Get(a, "precipitation_trend", EmptyDict)
        comfort == Get(a, "comfort_analysis", EmptyDict)
        warnings == Get(a, "weather_warnings", <<>>)
        suggestions == Get(a, "suggestions", EmptyDict)
        header == <<[section |-> "header",
                     date |-> t["date"],
                     weather |-> Get(t, "weather", "unknown"),
                     temp_min |-> t["temp_min"],
                     temp_max |-> t["temp_max"],
                     humidity |-> Shown(t, "humidity"),
                     wind_scale |-> Shown(t, "wind_scale")]>>
        trend_part ==
            IF DOMAIN temp_trend # {}
            THEN <<[section |-> "temperature_trend",
                    trend |-> Get(temp_trend, "trend", "stable"),
                    max_temp_change |-> Get(temp_trend, "max_temp_change", 0),
                    min_temp_change |-> Get(temp_trend, "min_temp_change", 0),
                    tomorrow_diff |-> Get(temp_trend, "tomorrow_diff", 0),
                    avg_hist_diff |-> Get(temp_trend, "avg_hist_diff", 0)]>>
            ELSE <<>>
        precip_part ==
            IF DOMAIN precip # {}
            THEN <<[section |-> "precipitation",
                    probability |-> Get(precip, "probability", 0),
                    trend |-> Get(precip, "trend", "unknown"),
                    recent_rainy_days |-> Get(precip, "recent_rainy_days", 0)]>>
            ELSE <<>>
        comfort_part ==
            IF DOMAIN comfort # {}
            THEN <<[section |-> "comfort",
                    apparent_temp |-> Get(comfort, "apparent_temp", 0),
                    comfort_level |-> Get(comfort, "comfort_level", "unknown")]>>
            ELSE <<>>
        warning_part ==
            IF warnings # <<>>
            THEN <<[section |-> "warnings", items |-> warnings]>>
            ELSE <<>>
        suggestion_part ==
            IF DOMAIN suggestions # {}
            THEN <<[section |-> "suggestions",
                    clothing |-> Shown(suggestions, "clothing"),
                    activity |-> Get(suggestions, "activity", "no_suggestion"),
                    health |-> Get(suggestions, "health",
                                   <<"no_suggestion">>)]>>
            ELSE <<>>
        footer == <<[section |-> "footer", generated |-> clock \div 2]>>
    IN  header \o trend_part \o precip_part \o comfort_part
        \o warning_part \o suggestion_part \o footer

-----------------------------------------------------------------------------
(* The inputs drawn *)

\* a dict with key k absent, or bound to one of vals
OptField(k, vals) == {EmptyDict} \cup {k :> v : v \in vals}

\* the sequences over recs of length 0..n
Histories(recs, n) == UNION {[1..k -> recs] : k \in 0..n}

BaseForecast(temp_max, temp_min) ==
    [date |-> DateStr(1), temp_max |-> temp_max, temp_min |-> temp_min]

OneDay == [date |-> DateStr(0), temp_max |-> 200, temp_min |-> 150]

\* around every warning threshold, default and configured
WarningInputs ==
    LET recs == {r @@ [temp_min |-> 100] :
                     r \in OptField("temp_max", {119, 120, 281})}
    IN  {<<BaseForecast(x, n) @@ p, h, c>> :
            x \in {200, 340, 350}, n \in {50, 60, 99, 100},
            p \in OptField("precipitation_probability", {70, 71}),
            h \in {<<r>> : r \in recs} \cup {<<r, OneDay>> : r \in recs},
            c \in {EmptyDict,
                   [hot_warning_temp |-> 340, cold_warning_temp |-> 60,
                    temp_diff_threshold |-> 150]}}

\* around every comfort boundary, with and without the humidity term
ComfortInputs ==
    {<<BaseForecast(x, x - 50) @@ h, <<OneDay>>, EmptyDict>> :
        x \in {149, 150, 179, 180, 250, 251, 260, 261, 280, 300, 301},
        h \in OptField("humidity", {40, 50, 70, 71, 90})}

\* around both trend thresholds, with well-formed and malformed history
TrendInputs ==
    LET recs == {[temp_max |-> 184, temp_min |-> 100],
                 [temp_max |-> 200, temp_min |-> 100],
                 [temp_max |-> 200], [temp_min |-> 100]}
    IN  {<<BaseForecast(x, x - 60), h, c>> :
            x \in {169, 185, 210, 225, 230, 231},
            h \in Histories(recs, MaxHist),
            c \in {EmptyDict, [temp_change_threshold |-> 10],
                   [temp_change_threshold |-> 40]}}

\* every wardrobe band and every diurnal-range band, other fields varying
ClothingInputs ==
    {<<BaseForecast(n + d, n) @@ u @@ w, h, EmptyDict>> :
        n \in {-60, -50, -1, 0, 29, 30, 49, 50, 79, 80, 99, 100, 149, 150,
               199, 200, 249, 250},
        d \in {-20, 79, 80, 119, 120},
        u \in OptField("humidity", {90}),
        w \in OptField("weather", {"light_rain"}),
        h \in {<<>>, <<OneDay>>}}

Inputs == WarningInputs \cup ComfortInputs \cup TrendInputs \cup ClothingInputs

-----------------------------------------------------------------------------
(* The bot before any run() *)

\* record.get('last_run_date') of a record file without the key
NoDate == -1

\* no run() and no get_weather_forecast is under way
BotIdle ==
    /\ pc = "idle"
    /\ settings = EmptyDict
    /\ run_record = NoDate
    /\ retry_times = 0
    /\ attempt = 0
    /\ sleeps = 0
    /\ responses = <<>>
    /\ steps = <<>>
    /\ before = <<>>
    /\ delivered = [d \in 0..MaxDay |-> 0]
    /\ runs = 0

-----------------------------------------------------------------------------
(* The analyzer's operations *)

InitAnalyzer ==
    /\ \E i \in Inputs :
        /\ tomorrow = i[1]
        /\ historical = i[2]
        /\ config = i[3]
    /\ call = "none"
    /\ ret = NoResult
    /\ analysis = NoResult
    /\ composed = {}
    /\ rendered = {}
    /\ now = 0
    /\ records = <<>>
    /\ today = 0
    /\ days = 0
    /\ saves = 0
    /\ BotIdle

Apply(name, result) ==
    /\ call = "none"
    /\ call' = name
    /\ ret' = result
    /\ UNCHANGED <<botVars, analyzerVars, dataVars>>

AnalyzeTemperatureTrend ==
    Apply("_analyze_temperature_trend",
          _analyze_temperature_trend(tomorrow, historical, config))

AnalyzePrecipitation ==
    Apply("_analyze_precipitation",
          _analyze_precipitation(tomorrow, historical))

AnalyzeComfort ==
    Apply("_analyze_comfort", _analyze_comfort(tomorrow, historical))

CheckWarnings ==
    Apply("_check_warnings", _check_warnings(tomorrow, historical, config))

GetClothingSuggestion ==
    \E apparent_temp \in {tomorrow["temp_max"], tomorrow["temp_max"] + 40} :
        Apply("_get_clothing_suggestion",
              _get_clothing_suggestion(tomorrow["temp_max"],
                                       tomorrow["temp_min"], apparent_temp))

\* run() step 3: the analysis is kept; with a history its suggestions are
\* the first composition for it (line 42)
AnalyzeWeatherTrend ==
    LET a == analyze_weather_trend(tomorrow, historical, config)
    IN  /\ call = "none"
        /\ call' = "analyze_weather_trend"
        /\ ret' = a
        /\ analysis' = a
        /\ composed' = IF a.ok /\ historical # <<>>
                       THEN {a.val["suggestions"]} ELSE {}
        /\ UNCHANGED <<botVars, tomorrow, historical, config, rendered, now, dataVars>>

\* suggestion composition, again, on the analysis kept
GenerateSuggestions ==
    /\ analysis.ok
    /\ call' = "_generate_suggestions"
    /\ ret' = _generate_suggestions(analysis.val)
    /\ composed' = composed \cup {ret'.val}
    /\ UNCHANGED <<botVars, tomorrow, historical, config, analysis, rendered, now,
                   dataVars>>

\* run() step 4, at whatever time the clock has reached
FormatReport ==
    /\ analysis.ok
    /\ \E clock \in now..MaxNow :
        /\ now' = clock
        /\ ret' = Ok(format_report(analysis.val, clock))
    /\ call' = "format_report"
    /\ rendered' = rendered \cup {ret'.val}
    /\ UNCHANGED <<botVars, tomorrow, historical, config, analysis, composed, dataVars>>

NextAnalyzer ==
    \/ AnalyzeTemperatureTrend
    \/ AnalyzePrecipitation
    \/ AnalyzeComfort
    \/ CheckWarnings
    \/ GetClothingSuggestion
    \/ AnalyzeWeatherTrend
    \/ GenerateSuggestions
    \/ FormatReport

SpecAnalyzer == InitAnalyzer /\ [][NextAnalyzer]_vars

-----------------------------------------------------------------------------
(* Claims about the analyzer, checked under SpecAnalyzer *)

\* C1: analyze_weather_trend never fails on valid inputs: for every
\* forecast with temp_max and temp_min (temp_max < temp_min and absent
\* optional fields included) and every history of length 0..N the call
\* returns an analysis and never ends in an error.
\* (Stated for histories whose records all hold both temperatures.)
C1_NeverFails ==
    (/\ call = "analyze_weather_trend"
     /\ \A i \in 1..Len(historical) :
            Has(historical[i], "temp_max") /\ Has(historical[i], "temp_min"))
        => ret.ok

WarningOrder == <<"heat", "cold", "diurnal_range", "rain", "abrupt_change">>

\* the condition the claim gives for each warning
WarningDue(k, t, hs, cfg) ==
    CASE k = "heat" -> t["temp_max"] >= Get(cfg, "hot_warning_temp", 350)
      [] k = "cold" -> t["temp_min"] <= Get(cfg, "cold_warning_temp", 50)
      [] k = "diurnal_range" ->
            t["temp_max"] - t["temp_min"]
                > Get(cfg, "temp_diff_threshold", 100)
      [] k = "rain" ->
            Has(t, "precipitation_probability")
            /\ t["precipitation_probability"] > 70
      [] k = "abrupt_change" ->
            /\ hs # <<>>
            /\ Has(hs[1], "temp_max")
            /\ Abs(t["temp_max"] - hs[1]["temp_max"]) > 80

Kinds(ws) == [i \in 1..Len(ws) |-> ws[i].kind]

\* C2: for every forecast and non-empty history the warning list of
\* _check_warnings is exactly the subsequence of [heat, cold,
\* diurnal-range, rain, abrupt-change] whose condition holds, in that
\* order, with no warning twice and never more than 5 entries.
C2_WarningsExact ==
    (call = "_check_warnings" /\ historical # <<>>) =>
        /\ ret.ok
        /\ LET Due(k) == WarningDue(k, tomorrow, historical, config)
           IN  Kinds(ret.val) = SelectSeq(WarningOrder, Due)
        /\ Len(ret.val) <= 5
        /\ \A i, j \in 1..Len(ret.val) :
               ret.val[i].kind = ret.val[j].kind => i = j

\* all five warnings fire at once, under configured thresholds
C2_Witness ==
    /\ call = "_check_warnings"
    /\ historical # <<>>
    /\ Has(config, "hot_warning_temp")
    /\ ret.ok
    /\ Len(ret.val) = 5

\* the clothing text as the claim describes it: the wardrobe band of
\* temp_min in one of three shapes chosen by the diurnal range
ClothingBySpec(temp_max, temp_min) ==
    LET lower == <<-50, 0, 50, 100, 150, 200, 250>>
        band == 1 + Cardinality({i \in 1..7 : temp_min >= lower[i]})
        temp_diff == temp_max - temp_min
    IN  IF temp_diff >= 120
        THEN [shape |-> "onion_layering",
              morning |-> band,
              midday_tip |-> IF temp_max >= 200 THEN "shed_to_sleeves"
                             ELSE IF temp_max >= 150 THEN "take_off_coat"
                             ELSE "reduce_a_little",
              midday |-> Fmt0f(temp_max),
              diff |-> Fmt0f(temp_diff)]
        ELSE IF temp_diff >= 80
        THEN [shape |-> "reduce_layers",
              morning |-> band,
              midday_tip |-> IF temp_max >= 200 THEN "warm_less_coat"
                             ELSE "reduce_a_little",
              midday |-> Fmt0f(temp_max),
              diff |-> Fmt0f(temp_diff)]
        ELSE [shape |-> "morning_only", morning |-> band]

\* C3: with an empty history analyze_weather_trend returns an analysis
\* whose trend is the "no history" label, whose warning list is empty and
\* whose clothing suggestion is the clothing text for the forecast's
\* temp_min and temp_max.
C3_EmptyHistory ==
    (call = "analyze_weather_trend" /\ historical = <<>>) =>
        /\ ret.ok
        /\ ret.val["temperature_trend"]["trend"] = "no_history"
        /\ ret.val["weather_warnings"] = <<>>
        /\ ret.val["suggestions"]["clothing"]
               = ClothingBySpec(tomorrow["temp_max"], tomorrow["temp_min"])

\* C4: any two suggestion compositions and any two renderings of the same
\* analysis value, at any two points in time, give one suggestion set and
\* one report text.
C4_Deterministic == Cardinality(composed) <= 1 /\ Cardinality(rendered) <= 1

\* the forecasts whose clothing text takes the branch of line 231
MiddayTipRaises(t) ==
    t["temp_max"] - t["temp_min"] >= 120 /\ t["temp_max"] >= 200

\* C5: with a non-empty history of which any subset of records lacks
\* temp_max and/or temp_min, analyze_weather_trend does not abort, and the
\* averages are those of the values the remaining records hold.  (Stated
\* for the forecasts whose clothing text does not raise, so that a
\* violation is an abort of the statistics.)
C5_MalformedTolerated ==
    (/\ call = "analyze_weather_trend"
     /\ historical # <<>>
     /\ ~MiddayTipRaises(tomorrow)) =>
        /\ ret.ok
        /\ LET xs == Pluck(historical, "temp_max")
               ns == Pluck(historical, "temp_min")
               tt == ret.val["temperature_trend"]
           IN  (xs # <<>> /\ ns # <<>>) =>
                   /\ tt["avg_max_temp"] = RoundDiv(Sum(xs), Len(xs))
                   /\ tt["avg_min_temp"] = RoundDiv(Sum(ns), Len(ns))

\* apparent temperature and its label as the claim gives them
ApparentBySpec(t) ==
    IF t["temp_max"] <= 250 THEN t["temp_max"]
    ELSE t["temp_max"] + (Get(t, "humidity", 50) - 50)

LabelBySpec(a) ==
    CASE a < 150 -> "cold"
      [] 150 <= a /\ a < 180 -> "fairly_comfortable"
      [] 180 <= a /\ a <= 260 -> "comfortable"
      [] 260 < a /\ a <= 300 -> "fairly_comfortable"
      [] a > 300 -> "hot"

\* C6: apparent temperature is temp_max when temp_max <= 25, else temp_max
\* + (humidity - 50) * 0.1; its label is "comfortable" on [18,26], "fairly
\* comfortable" on [15,18) and (26,30], "cold" below 15, "hot" above 30,
\* decided on the unrounded value.
C6_ComfortPartition ==
    call = "_analyze_comfort" =>
        /\ ret.ok
        /\ ret.val["apparent_temp"] = ApparentBySpec(tomorrow)
        /\ ret.val["comfort_level"] = LabelBySpec(ApparentBySpec(tomorrow))

\* the humidity term brings 28.0 to exactly 30.0: fairly comfortable
C6_Witness ==
    /\ call = "_analyze_comfort"
    /\ tomorrow["temp_max"] = 280
    /\ ret.val["apparent_temp"] = 300
    /\ ret.val["comfort_level"] = "fairly_comfortable"

\* the trend label as the claim gives it, on the unrounded delta
\* tomorrow.temp_max - mean(historical temp_max) = num / n
TrendBySpec(t, hs, cfg) ==
    LET xs == Pluck(hs, "temp_max")
        n == Len(xs)
        num == n * t["temp_max"] - Sum(xs)
        significant == Get(cfg, "temp_change_threshold", 30)
        moderate == 15
    IN  IF Abs(num) > significant * n
        THEN (IF num > 0 THEN "significant_rise" ELSE "significant_fall")
        ELSE IF Abs(num) > moderate * n
        THEN (IF num > 0 THEN "slight_rise" ELSE "slight_fall")
        ELSE "stable"

\* C7: for every forecast and every history with at least one temp_max
\* the trend label is decided on the unrounded delta against the
\* thresholds: beyond significant a significant rise or fall, else beyond
\* moderate a slight rise or fall, else stable.
C7_TrendLabel ==
    (/\ call = "_analyze_temperature_trend"
     /\ Pluck(historical, "temp_max") # <<>>) =>
        /\ ret.ok
        /\ ret.val["trend"] = TrendBySpec(tomorrow, historical, config)

\* C8: for every temp_min and temp_max the clothing suggestion is one of
\* three shapes chosen by the diurnal range (>= 12 onion layering with a
\* midday tip by temp_max >= 20, >= 15 or below; >= 8 reduce layers; else
\* the wardrobe text alone) around the wardrobe text of temp_min's band,
\* and depends on nothing else.
C8_ClothingShape ==
    call = "_get_clothing_suggestion" =>
        /\ ret.ok
        /\ ret.val = ClothingBySpec(tomorrow["temp_max"],
                                    tomorrow["temp_min"])

Sections(report) == [i \in 1..Len(report) |-> report[i].section]

Present(a, k) == Has(a, k) /\ DOMAIN a[k] # {}

\* C9: in the report the temperature-trend, precipitation and comfort
\* sections each appear iff the analysis has that sub-structure, so that
\* an analysis of an empty history renders no temperature-trend section;
\* the warnings section appears iff there are warnings and holds them all
\* in order; the sections come in the order header, temperature trend,
\* precipitation, comfort, warnings, suggestions, footer.
C9_ReportSections ==
    call = "format_report" =>
        LET a == analysis.val
            report == ret.val
            warnings == a["weather_warnings"]
        IN  /\ Sections(report) =
                   <<"header">>
                   \o (IF Present(a, "temperature_trend") /\ historical # <<>>
                       THEN <<"temperature_trend">> ELSE <<>>)
                   \o (IF Present(a, "precipitation_trend")
                       THEN <<"precipitation">> ELSE <<>>)
                   \o (IF Present(a, "comfort_analysis")
                       THEN <<"comfort">> ELSE <<>>)
                   \o (IF warnings # <<>> THEN <<"warnings">> ELSE <<>>)
                   \o <<"suggestions", "footer">>
            /\ \A i \in 1..Len(report) :
                   report[i].section = "warnings" =>
                       report[i].items = warnings

-----------------------------------------------------------------------------
(* DataManager *)

\* records[:60]
KeepRecords == 60

\* The records of s dated among dates, latest date first; those of one
\* date in the order they have in s.
RECURSIVE LatestFirst(_, _)
LatestFirst(s, dates) ==
    IF dates = {} THEN <<>>
    ELSE LET latest == CHOOSE d \in dates : \A e \in dates : ~StrLess(d, e)
             OfLatest(r) == r["date"] = latest
         IN  SelectSeq(s, OfLatest) \o LatestFirst(s, dates \ {latest})

RECURSIVE EarliestFirst(_, _)
EarliestFirst(s, dates) ==
    IF dates = {} THEN <<>>
    ELSE LET earliest == CHOOSE d \in dates : \A e \in dates : ~StrLess(e, d)
             OfEarliest(r) == r["date"] = earliest
         IN  SelectSeq(s, OfEarliest) \o EarliestFirst(s, dates \ {earliest})

\* records.sort(key=lambda x: x['date'], reverse=True): a stable sort, so
\* records of one date keep their order
SortByDateDesc(s) == LatestFirst(s, {s[i]["date"] : i \in 1..Len(s)})

\* records.sort(key=lambda x: x['date'])
SortByDateAsc(s) == EarliestFirst(s, {s[i]["date"] : i \in 1..Len(s)})

\* s[:n] for n >= 0
Prefix(s, n) == SubSeq(s, 1, IF n < Len(s) THEN n ELSE Len(s))

\* a mutant of get_historical_data: the sort without reverse=True
get_historical_data_ascending(stored, n) == Prefix(SortByDateAsc(stored), n)

get_historical_data(stored, n) == Prefix(SortByDateDesc(stored), n)

\* the list save_weather_data writes
save_weather_data(stored, weather_data) ==
    Prefix(SortByDateDesc(stored \o <<weather_data>>), KeepRecords)

\* the list cleanup_old_data writes on day number day
cleanup_old_data(stored, day, retention) ==
    LET cutoff_date == DateStr(day - retention)
        Kept(r) == ~StrLess(r["date"], cutoff_date)
    IN  SelectSeq(stored, Kept)

-----------------------------------------------------------------------------
(* The data manager's operations *)

\* a file that has reached the 60 records kept, over three dates
FullStore ==
    [i \in 1..KeepRecords |->
        [date |-> DateStr(IF i <= 20 THEN 1 ELSE IF i <= 40 THEN 0 ELSE -1),
         temp_max |-> 200, temp_min |-> 150]]

InitData ==
    /\ tomorrow = BaseForecast(200, 150)
    /\ historical = <<>>
    /\ config = EmptyDict
    /\ call = "none"
    /\ ret = NoResult
    /\ analysis = NoResult
    /\ composed = {}
    /\ rendered = {}
    /\ now = 0
    /\ records \in {<<>>, FullStore}
    /\ today = 0
    /\ days = 0
    /\ saves = 0
    /\ BotIdle

\* run() step 6: the forecast saved is dated today or tomorrow; _save_json
\* either replaces the file or raises and leaves it as it was.  The list
\* run() read at step 2 is not used again.
SaveWeatherData ==
    /\ saves < MaxSaves
    /\ saves' = saves + 1
    /\ \E d \in {today, today + 1}, x \in {180, 200}, written \in BOOLEAN :
        LET weather_data == [date |-> DateStr(d), temp_max |-> x,
                             temp_min |-> 150]
        IN  /\ records' = IF written
                          THEN save_weather_data(records, weather_data)
                          ELSE records
            /\ ret' = IF written THEN Ok("saved") ELSE Raise("OSError")
    /\ call' = "save_weather_data"
    /\ historical' = <<>>
    /\ days' = 0
    /\ UNCHANGED <<botVars, tomorrow, config, analysis, composed, rendered, now, today>>

\* run() step 8
CleanupOldData ==
    /\ \E retention \in {0, 1, 7}, written \in BOOLEAN :
        /\ records' = IF written
                      THEN cleanup_old_data(records, today, retention)
                      ELSE records
        /\ ret' = IF written THEN Ok("cleaned") ELSE Raise("OSError")
    /\ call' = "cleanup_old_data"
    /\ historical' = <<>>
    /\ days' = 0
    /\ UNCHANGED <<botVars, tomorrow, config, analysis, composed, rendered, now, today,
                   saves>>

\* run() step 2: the list returned is the history the analyzer is given
GetHistoricalData ==
    /\ \E n \in {0, 1, 2, 7} :
        /\ days' = n
        /\ historical' = get_historical_data(records, n)
    /\ ret' = Ok("read")
    /\ call' = "get_historical_data"
    /\ UNCHANGED <<botVars, tomorrow, config, analysis, composed, rendered, now,
                   records, today, saves>>

NextDay ==
    /\ today < MaxDay
    /\ today' = today + 1
    /\ call' = "none"
    /\ ret' = NoResult
    /\ historical' = <<>>
    /\ days' = 0
    /\ UNCHANGED <<botVars, tomorrow, config, analysis, composed, rendered, now,
                   records, saves>>

NextData ==
    \/ SaveWeatherData
    \/ CleanupOldData
    \/ GetHistoricalData
    \/ NextDay

SpecData == InitData /\ [][NextData]_vars

-----------------------------------------------------------------------------
(* Claims about the data manager, checked under SpecData *)

Count(s, r) == Cardinality({i \in 1..Len(s) : s[i] = r})

Range(s) == {s[i] : i \in 1..Len(s)}

-----------------------------------------------------------------------------
(* WeatherBot.get_weather_forecast *)

\* get_weather_forecast(self, retry_times=3)
DefaultRetryTimes == 3

\* requests.get(...) or response.json() raised: no connection, a timeout
\* after 10 seconds, a body that is not JSON
NoResponse == [kind |-> "exception"]

\* response.json() returned data
JsonResponse(data) == [kind |-> "json", data |-> data]

\* one entry of the provider's 'daily' list; a numeric string is written as
\* the number it spells, in whole degrees and percents
Daily(d, tempMax, tempMin) ==
    [fxDate |-> DateStr(d), tempMax |-> tempMax, tempMin |-> tempMin,
     textDay |-> "sunny", humidity |-> 50, windScaleDay |-> "1-2",
     windDirDay |-> "north"]

\* what one request made on day d may get: no answer, an error code, a
\* code-'200' answer with tomorrow's entry, and one whose 'daily' list
\* stops at today
Responses(d) ==
    {NoResponse,
     JsonResponse([code |-> "401"]),
     JsonResponse([code |-> "200", daily |-> <<Daily(d, 18, 12)>>])}
    \cup {JsonResponse([code |-> "200",
                        daily |-> <<Daily(d, 18, 12), Daily(d + 1, x, 15)>>]) :
              x \in {20, 28}}

\* data.get('code') == '200'
IsSuccess(data) == Get(data, "code", "none") = "200"

\* lines 108-120: tomorrow's record out of a code-'200' answer; data['daily']
\* [1] and the subscripts raise where the answer lacks them
FormatWeatherData(data) ==
    IF ~Has(data, "daily") THEN Raise("KeyError")
    ELSE IF Len(data["daily"]) < 2 THEN Raise("IndexError")
    ELSE LET t == data["daily"][2]
         IN  IF \E k \in {"fxDate", "tempMax", "tempMin", "textDay",
                          "humidity", "windScaleDay", "windDirDay"} :
                    ~Has(t, k)
             THEN Raise("KeyError")
             ELSE Ok([date |-> t["fxDate"],
                      temp_max |-> t["tempMax"] * 10,
                      temp_min |-> t["tempMin"] * 10,
                      weather |-> t["textDay"],
                      humidity |-> t["humidity"],
                      precipitation_probability |-> Get(t, "precip", 0),
                      wind_scale |-> t["windScaleDay"],
                      wind_dir |-> t["windDirDay"]])

\* the body of the try of one attempt: the record to return, or the failure
\* that is logged (an exception caught at line 127, or a code that is not
\* '200')
TryRequest(response) ==
    IF response.kind = "exception" THEN Raise("RequestException")
    ELSE IF IsSuccess(response.data) THEN FormatWeatherData(response.data)
    ELSE Raise("api_error")

\* a mutant of ShouldSleep: sleeps after the last attempt as well
ShouldSleepAfterEach(n, times) == n < times

\* if attempt < retry_times - 1
ShouldSleep(n, times) == n < times - 1

\* one pass of the loop body up to the sleep: a request and what it got
RequestAttempt ==
    /\ pc = "request"
    /\ attempt < retry_times
    /\ \E response \in Responses(today) :
        LET result == TryRequest(response)
        IN  /\ responses' = Append(responses, response)
            /\ IF result.ok
               THEN /\ ret' = result
                    /\ pc' = "return"
                    /\ attempt' = attempt
               ELSE /\ ret' = ret
                    /\ IF ShouldSleep(attempt, retry_times)
                       THEN pc' = "sleep" /\ attempt' = attempt
                       ELSE pc' = "request" /\ attempt' = attempt + 1
    /\ UNCHANGED <<analyzerVars, dataVars, call, settings, run_record,
                   retry_times, sleeps, steps, before, delivered, runs>>

\* time.sleep(retry_interval), then the next pass
RetrySleep ==
    /\ pc = "sleep"
    /\ sleeps' = sleeps + 1
    /\ attempt' = attempt + 1
    /\ pc' = "request"
    /\ UNCHANGED <<analyzerVars, dataVars, call, ret, settings, run_record,
                   retry_times, responses, steps, before, delivered, runs>>

\* the loop is over: raise Exception(max retries reached)
RaiseMaxRetries ==
    /\ pc = "request"
    /\ attempt >= retry_times
    /\ ret' = Raise("max_retries")
    /\ pc' = "return"
    /\ UNCHANGED <<analyzerVars, dataVars, call, settings, run_record,
                   retry_times, attempt, sleeps, responses, steps, before,
                   delivered, runs>>

\* get_weather_forecast(retry_times) called on its own
GetWeatherForecast ==
    /\ pc \in {"idle", "return"}
    /\ runs < MaxRuns
    /\ runs' = runs + 1
    /\ \E times \in 0..MaxRetries : retry_times' = times
    /\ attempt' = 0
    /\ sleeps' = 0
    /\ responses' = <<>>
    /\ call' = "get_weather_forecast"
    /\ ret' = NoResult
    /\ pc' = "request"
    /\ UNCHANGED <<analyzerVars, dataVars, settings, run_record, steps,
                   before, delivered>>

NextFetch ==
    \/ GetWeatherForecast
    \/ RequestAttempt
    \/ RetrySleep
    \/ RaiseMaxRetries

\* no file is read or written by get_weather_forecast
InitFetch == InitData /\ records = <<>>

SpecFetch == InitFetch /\ [][NextFetch]_vars

-----------------------------------------------------------------------------
(* ServerChanNotifier.send *)

\* what the push service may answer: nothing usable, code 0, an error code
PushResponses ==
    {NoResponse, JsonResponse([code |-> 0]), JsonResponse([code |-> 40001])}

\* True if the answer's code is 0; False for any other answer and for any
\* exception
send(response) ==
    IF response.kind = "exception" THEN FALSE
    ELSE Get(response.data, "code", -1) = 0

-----------------------------------------------------------------------------
(* WeatherBot.run *)

\* record.get('last_run_date') == today; a record file that cannot be read
\* loads as {}
check_already_run_today(loaded, day) ==
    (IF loaded THEN run_record ELSE NoDate) = day

\* start_hour <= now.hour < end_hour
InWindow(hour) ==
    settings["start_hour"] <= hour /\ hour < settings["end_hour"]

should_run(loaded, day, hour) ==
    IF check_already_run_today(loaded, day) THEN FALSE
    ELSE InWindow(hour)

\* a mutant of AfterSend: steps 6 to 8 whatever send returned
AfterSendAlways(success) == "save"

\* if success: ... else: log the failure and return
AfterSend(success) == IF success THEN "save" ELSE "idle"

\* the data file as _load_json gives it: {} where it cannot be read
Loaded(loaded) == IF loaded THEN records ELSE <<>>

\* a one-record history, or none, and the settings of config.json
InitBot ==
    /\ tomorrow = BaseForecast(200, 150)
    /\ historical = <<>>
    /\ config = EmptyDict
    /\ call = "none"
    /\ ret = NoResult
    /\ analysis = NoResult
    /\ composed = {}
    /\ rendered = {}
    /\ now = 0
    /\ records \in {<<>>, <<FormatWeatherData([daily |->
                                  <<Daily(-1, 18, 12), Daily(0, 18, 12)>>]).val>>}
    /\ today = 0
    /\ days = 0
    /\ saves = 0
    /\ pc = "idle"
    /\ settings \in {[analysis_days |-> 1, data_retention_days |-> 1,
                      start_hour |-> 8, end_hour |-> 20],
                     [analysis_days |-> 7, data_retention_days |-> 30,
                      start_hour |-> 8, end_hour |-> 20]}
    /\ run_record = NoDate
    /\ retry_times = 0
    /\ attempt = 0
    /\ sleeps = 0
    /\ responses = <<>>
    /\ steps = <<>>
    /\ before = <<records, run_record>>
    /\ delivered = [d \in 0..MaxDay |-> 0]
    /\ runs = 0

\* run() up to step 1, in a new process (the locals of the last run() are
\* gone): skipped, or started on get_weather_forecast()
ShouldRun ==
    /\ pc = "idle"
    /\ tomorrow' = BaseForecast(200, 150)
    /\ historical' = <<>>
    /\ analysis' = NoResult
    /\ rendered' = {}
    /\ days' = 0
    /\ runs < MaxRuns
    /\ runs' = runs + 1
    /\ before' = <<records, run_record>>
    /\ attempt' = 0
    /\ sleeps' = 0
    /\ responses' = <<>>
    /\ \E loaded \in BOOLEAN, hour \in {7, 8, 19, 20} :
        IF should_run(loaded, today, hour)
        THEN /\ pc' = "request"
             /\ retry_times' = DefaultRetryTimes
             /\ steps' = <<"should_run">>
             /\ call' = "get_weather_forecast"
             /\ ret' = NoResult
        ELSE /\ pc' = "idle"
             /\ retry_times' = retry_times
             /\ steps' = <<"skipped">>
             /\ call' = "should_run"
             /\ ret' = Ok(FALSE)
    /\ UNCHANGED <<config, composed, now, records, today, saves, settings,
                   run_record, delivered>>

\* steps 2 to 4: the history read, the analysis, the report
AnalyzeAndFormat ==
    /\ pc = "return"
    /\ ret.ok
    /\ tomorrow' = ret.val
    /\ days' = settings["analysis_days"]
    /\ \E loaded \in BOOLEAN :
        historical' = get_historical_data(Loaded(loaded), days')
    /\ analysis' = analyze_weather_trend(tomorrow', historical', config)
    /\ call' = "analyze_weather_trend"
    /\ ret' = analysis'
    /\ IF analysis'.ok
       THEN /\ rendered' = {format_report(analysis'.val, now)}
            /\ steps' = Append(steps, "report")
            /\ pc' = "send"
       ELSE /\ rendered' = rendered
            /\ steps' = steps
            /\ pc' = "except"
    /\ attempt' = 0
    /\ sleeps' = 0
    /\ responses' = <<>>
    /\ UNCHANGED <<config, composed, now, records, today, saves, settings,
                   run_record, retry_times, before, delivered, runs>>

\* step 5: the report pushed; a push that returns True has delivered it
Send ==
    /\ pc = "send"
    /\ \E response \in PushResponses :
        LET success == send(response)
        IN  /\ ret' = Ok(success)
            /\ steps' = Append(steps, IF success THEN "send_true"
                                                 ELSE "send_false")
            /\ delivered' = IF success
                            THEN [delivered EXCEPT ![today] = @ + 1]
                            ELSE delivered
            /\ pc' = AfterSend(success)
    /\ call' = "send"
    /\ UNCHANGED <<analyzerVars, dataVars, settings, run_record, retry_times,
                   attempt, sleeps, responses, before, runs>>

\* step 6: save_weather_data(tomorrow_weather); _save_json replaces the file
\* or raises and leaves it
RunSaveWeatherData ==
    /\ pc = "save"
    /\ \E loaded \in BOOLEAN, written \in BOOLEAN :
        /\ records' = IF written
                      THEN save_weather_data(Loaded(loaded), tomorrow)
                      ELSE records
        /\ ret' = IF written THEN Ok("saved") ELSE Raise("OSError")
        /\ pc' = IF written THEN "update" ELSE "except"
    /\ call' = "save_weather_data"
    /\ steps' = Append(steps, "save_weather_data")
    /\ UNCHANGED <<analyzerVars, today, days, saves, settings, run_record,
                   retry_times, attempt, sleeps, responses, before, delivered,
                   runs>>

\* step 7: update_run_record() writes today's date
RunUpdateRecord ==
    /\ pc = "update"
    /\ \E written \in BOOLEAN :
        /\ run_record' = IF written THEN today ELSE run_record
        /\ ret' = IF written THEN Ok("updated") ELSE Raise("OSError")
        /\ pc' = IF written THEN "cleanup" ELSE "except"
    /\ call' = "update_run_record"
    /\ steps' = Append(steps, "update_run_record")
    /\ UNCHANGED <<analyzerVars, dataVars, settings, retry_times, attempt,
                   sleeps, responses, before, delivered, runs>>

\* step 8: cleanup_old_data(retention_days)
RunCleanupOldData ==
    /\ pc = "cleanup"
    /\ \E loaded \in BOOLEAN, written \in BOOLEAN :
        /\ records' = IF written
                      THEN cleanup_old_data(Loaded(loaded), today,
                                            settings["data_retention_days"])
                      ELSE records
        /\ ret' = IF written THEN Ok("cleaned") ELSE Raise("OSError")
        /\ pc' = IF written THEN "idle" ELSE "except"
    /\ call' = "cleanup_old_data"
    /\ steps' = Append(steps, "cleanup_old_data")
    /\ UNCHANGED <<analyzerVars, today, days, saves, settings, run_record,
                   retry_times, attempt, sleeps, responses, before, delivered,
                   runs>>

\* except Exception: the error is pushed (a failure notice, not a weather
\* report; what send returns is dropped) and the process exits with 1
HandleError ==
    /\ \/ pc = "except"
       \/ pc = "return" /\ ~ret.ok
    /\ \E response \in PushResponses : send(response) \in BOOLEAN
    /\ steps' = Append(steps, "failed")
    /\ pc' = "idle"
    /\ attempt' = 0
    /\ sleeps' = 0
    /\ responses' = <<>>
    /\ UNCHANGED <<analyzerVars, dataVars, call, ret, settings, run_record,
                   retry_times, before, delivered, runs>>

\* datetime.now() passes midnight, wherever run() is
Midnight ==
    /\ today < MaxDay
    /\ today' = today + 1
    /\ UNCHANGED <<analyzerVars, records, days, saves, call, ret, botVars>>

NextBot ==
    \/ ShouldRun
    \/ RequestAttempt
    \/ RetrySleep
    \/ RaiseMaxRetries
    \/ AnalyzeAndFormat
    \/ Send
    \/ RunSaveWeatherData
    \/ RunUpdateRecord
    \/ RunCleanupOldData
    \/ HandleError
    \/ Midnight

SpecBot == InitBot /\ [][NextBot]_vars

-----------------------------------------------------------------------------
(* Claims about run(), checked under SpecBot *)

\* C11: over any sequence of run() calls, with the fetch, the push and the
\* file writes free to fail, at most one weather report is delivered on any
\* one calendar day: once a report has been delivered today, a later run()
\* today is skipped by should_run and gets no further than that (the only
\* run() under way is the one that delivered it).
C11_OncePerDay ==
    /\ \A d \in 0..MaxDay : delivered[d] <= 1
    /\ (delivered[today] >= 1 /\ pc # "idle") => "send_true" \in Range(steps)

\* the calls of run() that write a file, in the order run() makes them
WriteSteps == <<"save_weather_data", "update_run_record", "cleanup_old_data">>

IsWrite(step) == step \in Range(WriteSteps)

\* C12: a run() that is skipped by should_run, whose fetch fails, or whose
\* send returns False (any run() in which send has not returned True) leaves
\* the stored records and the run record as they were when it started;
\* save_weather_data, update_run_record and cleanup_old_data are reached
\* only after a send that returned True, and in that order.
C12_WritesOnlyAfterSend ==
    LET written == SelectSeq(steps, IsWrite)
    IN  /\ "send_true" \notin Range(steps) =>
               /\ records = before[1]
               /\ run_record = before[2]
               /\ written = <<>>
        /\ Len(written) <= Len(WriteSteps)
        /\ written = SubSeq(WriteSteps, 1, Len(written))
        /\ written # <<>> =>
               \E i \in 1..Len(steps) :
                   /\ steps[i] = "send_true"
                   /\ \A j \in 1..i : ~IsWrite(steps[j])

\* a run() whose send returned False has ended, after an earlier run() that
\* saved a record and the run record, and both files are as it found them
C12_Witness ==
    /\ pc = "idle"
    /\ "send_false" \in Range(steps)
    /\ run_record # NoDate
    /\ records # <<>>
    /\ before = <<records, run_record>>

-----------------------------------------------------------------------------
(* Claims about get_weather_forecast, checked under SpecFetch *)

\* the answer carries code '200'
Code200(response) == response.kind = "json" /\ IsSuccess(response.data)

\* the answer carries code '200' and tomorrow's entry with its fields
Usable(response) == TryRequest(response).ok

Max(a, b) == IF a < b THEN b ELSE a

\* C13 as stated: get_weather_forecast(retry_times) makes at most
\* retry_times requests; it returns the forecast at the first request that
\* gets a code-'200' answer and makes no request after it; it sleeps only
\* between requests, never after the last; it raises 'max retries reached'
\* if and only if all retry_times requests failed, by exception or by a
\* code that is not '200'.
C13_ReturnsAtFirst200 ==
    pc # "idle" =>
        /\ Len(responses) <= retry_times
        /\ \A i \in 1..Len(responses) :
               Code200(responses[i]) =>
                   i = Len(responses) /\ pc = "return" /\ ret.ok
        /\ sleeps <= Len(responses)
        /\ pc = "return" =>
               /\ sleeps = Max(Len(responses) - 1, 0)
               /\ ~ret.ok => ret.err = "max_retries"
               /\ ~ret.ok <=>
                      /\ Len(responses) = retry_times
                      /\ \A i \in 1..Len(responses) : ~Code200(responses[i])

\* C13 as amended: the same, where the request that ends the call is the
\* first whose code-'200' answer holds tomorrow's entry (data['daily'][1]
\* with the fields read from it); a code-'200' answer without it is a
\* failed request like any other, by the exception it raises.
C13_ReturnsAtFirstUsable ==
    pc # "idle" =>
        /\ Len(responses) <= retry_times
        /\ \A i \in 1..Len(responses) :
               Usable(responses[i]) =>
                   i = Len(responses) /\ pc = "return" /\ ret.ok
        /\ sleeps <= Len(responses)
        /\ pc = "return" =>
               /\ sleeps = Max(Len(responses) - 1, 0)
               /\ ret.ok => ret = TryRequest(responses[Len(responses)])
               /\ ~ret.ok => ret.err = "max_retries"
               /\ ~ret.ok <=>
                      /\ Len(responses) = retry_times
                      /\ \A i \in 1..Len(responses) : ~Usable(responses[i])

\* the third of three requests returned the forecast, after a code-'200'
\* answer without tomorrow's entry and two sleeps
C13_Witness ==
    /\ pc = "return"
    /\ ret.ok
    /\ retry_times = DefaultRetryTimes
    /\ Len(responses) = 3
    /\ Code200(responses[1])
    /\ sleeps = 2

=============================================================================
